---------------------------- MODULE Spec2Model ----------------------------
(***************************************************************************)
(* A model of fontname.py: guessing the name of a font from the SFNT name  *)
(* records of its faces.                                                   *)
(*                                                                         *)
(* Byte strings are sequences of numbers 0..255, texts are sequences of    *)
(* Unicode code points.  An attempt that can raise is an outcome record    *)
(* whose field exc names the exception ("" when none was raised).          *)
(***************************************************************************)
EXTENDS Integers, Sequences, FiniteSets, TLC

(***************************************************************************)
(* Bounds of the model.                                                    *)
(***************************************************************************)
\* longest raw byte string of a name record in the decoding specification
MaxLen == 5
\* longest text that is encoded to make a well-formed raw string
MaxChars == 3
\* largest platform id and encoding id the table lookup is tried on
MaxPlatformID == 8
MaxEncodingID == 33
\* most name records of a face in the selector specification
MaxNames == 3
\* most faces of a font file
MaxFaces == 3

(***************************************************************************)
(* The values raw strings and texts are built from.  On ByteAlphabet every *)
(* codec of the table other than the UTF ones decodes byte by byte (0x80   *)
(* is no lead byte of any of the multi-byte codecs).                       *)
(***************************************************************************)
ByteAlphabet == {0, 65, 92, 128}
CharAlphabet == {0, 65, 92, 165}

RECURSIVE SeqsUpTo(_, _)
SeqsUpTo(S, n) ==
  IF n = 0 THEN {<<>>}
  ELSE LET shorter == SeqsUpTo(S, n - 1)
       IN  shorter \cup {Append(t, x) : t \in {u \in shorter : Len(u) = n - 1}, x \in S}

(***************************************************************************)
(* sfnt_name_encoding: [name.platform_id][name.encoding_id] -> codec       *)
(***************************************************************************)
sfnt_name_encoding ==
  0 :> (0 :> "utf_16_be" @@ 1 :> "utf_16_be" @@ 2 :> "utf_16_be" @@
        3 :> "utf_16_be" @@ 4 :> "utf_16_be" @@ 5 :> "utf_16_be") @@
  1 :> (0 :> "mac_roman" @@ 1 :> "shift_jis" @@ 2 :> "big5" @@ 3 :> "euc_kr" @@
        4 :> "iso8859_6" @@ 5 :> "iso8859_8" @@ 6 :> "mac_greek" @@
        7 :> "iso8859_5" @@ 8 :> "ascii" @@ 9 :> "ascii" @@ 10 :> "ascii" @@
        11 :> "ascii" @@ 12 :> "ascii" @@ 13 :> "ascii" @@ 14 :> "ascii" @@
        15 :> "ascii" @@ 16 :> "ascii" @@ 17 :> "ascii" @@ 18 :> "ascii" @@
        19 :> "ascii" @@ 20 :> "ascii" @@ 21 :> "cp874" @@ 22 :> "ascii" @@
        23 :> "ascii" @@ 24 :> "ascii" @@ 25 :> "euc_cn" @@ 26 :> "ascii" @@
        27 :> "ascii" @@ 28 :> "ascii" @@ 29 :> "ascii" @@ 30 :> "cp1258" @@
        31 :> "ascii" @@ 32 :> "ascii") @@
  2 :> (0 :> "ascii" @@ 1 :> "utf_16_be" @@ 2 :> "latin_1") @@
  3 :> (0 :> "utf_16_be" @@ 1 :> "utf_16_be" @@ 2 :> "shift_jis" @@
        3 :> "gb2312" @@ 4 :> "big5" @@ 5 :> "cp949" @@ 6 :> "johab" @@
        10 :> "utf_32_be") @@
  4 :> (0 :> "ascii") @@
  7 :> (0 :> "utf_16_be" @@ 1 :> "utf_16_be" @@ 2 :> "utf_16_be" @@
        3 :> "utf_16_be")

\* the codec names the table holds
TableCodecs ==
  {sfnt_name_encoding[p][e] : <<p, e>> \in
     {<<p, e>> \in (0..7) \X (0..32) :
        p \in DOMAIN sfnt_name_encoding /\ e \in DOMAIN sfnt_name_encoding[p]}}

(***************************************************************************)
(* The codecs of the Python runtime, by what they do.                      *)
(***************************************************************************)
UnicodeErrors == {"UnicodeError", "UnicodeDecodeError", "UnicodeEncodeError"}

Decoded(t) == [exc |-> "", text |-> t]
DecodeError == [exc |-> "UnicodeDecodeError", text |-> <<>>]
EncodeError == [exc |-> "UnicodeEncodeError", text |-> <<>>]

IsSurrogate(u) == u >= 55296 /\ u <= 57343

\* one byte under a single-byte codec, or under a multi-byte codec of which
\* it is no lead byte: the code point, or -1 when the byte is undecodable
ByteToChar(codec, b) ==
  IF codec = "latin_1" THEN b
  ELSE IF b < 128 THEN b
  ELSE IF b = 128 /\ codec \in {"mac_roman", "mac_greek"} THEN 196
  ELSE IF b = 128 /\ codec \in {"iso8859_5", "iso8859_6", "iso8859_8"} THEN 128
  ELSE IF b = 128 /\ codec \in {"cp874", "cp1258"} THEN 8364
  ELSE -1

RECURSIVE DecodeBytewise(_, _)
DecodeBytewise(codec, raw) ==
  IF raw = <<>> THEN Decoded(<<>>)
  ELSE LET c == ByteToChar(codec, Head(raw))
           rest == DecodeBytewise(codec, Tail(raw))
       IN  IF c < 0 \/ rest.exc # "" THEN DecodeError
           ELSE Decoded(<<c>> \o rest.text)

RECURSIVE DecodeUtf16be(_)
DecodeUtf16be(raw) ==
  IF raw = <<>> THEN Decoded(<<>>)
  ELSE IF Len(raw) < 2 THEN DecodeError
  ELSE LET u == raw[1] * 256 + raw[2]
           after == SubSeq(raw, 3, Len(raw))
       IN  IF ~IsSurrogate(u)
           THEN LET rest == DecodeUtf16be(after)
                IN  IF rest.exc # "" THEN DecodeError
                    ELSE Decoded(<<u>> \o rest.text)
           ELSE IF u >= 56320 \/ Len(after) < 2 THEN DecodeError
           ELSE LET v == after[1] * 256 + after[2]
                    rest == DecodeUtf16be(SubSeq(after, 3, Len(after)))
                IN  IF v < 56320 \/ v > 57343 \/ rest.exc # "" THEN DecodeError
                    ELSE Decoded(<<65536 + (u - 55296) * 1024 + (v - 56320)>>
                                 \o rest.text)

RECURSIVE DecodeUtf32be(_)
DecodeUtf32be(raw) ==
  IF raw = <<>> THEN Decoded(<<>>)
  ELSE IF Len(raw) < 4 THEN DecodeError
  ELSE LET u == (raw[2] * 256 + raw[3]) * 256 + raw[4]
           rest == DecodeUtf32be(SubSeq(raw, 5, Len(raw)))
       IN  \* a first byte other than zero puts the value above 0x10FFFF
           IF raw[1] # 0 \/ u > 1114111 \/ IsSurrogate(u) \/ rest.exc # ""
           THEN DecodeError
           ELSE Decoded(<<u>> \o rest.text)

\* raw.decode(codec)
Decode(codec, raw) ==
  IF codec = "utf_16_be" THEN DecodeUtf16be(raw)
  ELSE IF codec = "utf_32_be" THEN DecodeUtf32be(raw)
  ELSE DecodeBytewise(codec, raw)

\* one character under codec: its bytes, or <<-1>> when it cannot be encoded
CharToBytes(codec, c) ==
  IF codec = "utf_16_be"
    THEN IF IsSurrogate(c) THEN <<-1>>
         ELSE IF c < 65536 THEN <<c \div 256, c % 256>>
         ELSE LET hi == 55296 + ((c - 65536) \div 1024)
                  lo == 56320 + ((c - 65536) % 1024)
              IN  <<hi \div 256, hi % 256, lo \div 256, lo % 256>>
  ELSE IF codec = "utf_32_be"
    THEN IF IsSurrogate(c) THEN <<-1>>
         ELSE <<0, c \div 65536, (c \div 256) % 256, c % 256>>
  ELSE IF codec = "latin_1" THEN IF c < 256 THEN <<c>> ELSE <<-1>>
  ELSE IF c < 128 THEN <<c>>
  ELSE IF codec = "shift_jis" /\ c = 165 THEN <<92>>
  ELSE <<-1>>

\* text.encode(codec), for the codecs in EncodableCodecs and texts over
\* CharAlphabet
RECURSIVE Encode(_, _)
Encode(codec, text) ==
  IF text = <<>> THEN Decoded(<<>>)
  ELSE LET b == CharToBytes(codec, Head(text))
           rest == Encode(codec, Tail(text))
       IN  IF b = <<-1>> \/ rest.exc # "" THEN EncodeError
           ELSE Decoded(b \o rest.text)

EncodableCodecs == {"ascii", "latin_1", "utf_16_be", "utf_32_be", "shift_jis"}

(***************************************************************************)
(* Helpers on byte strings and texts.                                      *)
(***************************************************************************)
HasNul(t) == \E i \in 1..Len(t) : t[i] = 0

Range(seq) == {seq[i] : i \in DOMAIN seq}

\* s.strip("\x00")
RECURSIVE StripLeft(_)
StripLeft(t) == IF t # <<>> /\ Head(t) = 0 THEN StripLeft(Tail(t)) ELSE t

RECURSIVE StripRight(_)
StripRight(t) ==
  IF t # <<>> /\ t[Len(t)] = 0 THEN StripRight(SubSeq(t, 1, Len(t) - 1)) ELSE t

Strip(t) == StripRight(StripLeft(t))

\* re.match(br'^\x00[\x00-\xFF]*$', raw): the class matches every byte, so
\* the pattern asks only for a first byte of zero
MatchesPadding(raw) == raw # <<>> /\ raw[1] = 0

\* raw.replace(b'\x00', b'')
RECURSIVE RemoveNul(_)
RemoveNul(raw) ==
  IF raw = <<>> THEN <<>>
  ELSE IF Head(raw) = 0 THEN RemoveNul(Tail(raw))
  ELSE <<Head(raw)>> \o RemoveNul(Tail(raw))

(***************************************************************************)
(* guess_sfnt_name, the decoding of one name (the body of its for loop).   *)
(***************************************************************************)
FULL_NAME == 4

\* sfnt_name_encoding[name.platform_id][name.encoding_id]
TableGet(platform_id, encoding_id) ==
  IF platform_id \in DOMAIN sfnt_name_encoding
     /\ encoding_id \in DOMAIN sfnt_name_encoding[platform_id]
  THEN [exc |-> "", codec |-> sfnt_name_encoding[platform_id][encoding_id]]
  ELSE [exc |-> "KeyError", codec |-> ""]

\* PreferredEncoding without the fallback of its except clause
PreferredEncoding_NoFallback(platform_id, encoding_id) ==
  TableGet(platform_id, encoding_id).codec

\* try: encoding = sfnt_name_encoding[..][..]  except KeyError: 'utf_16_be'
PreferredEncoding(platform_id, encoding_id) ==
  LET got == TableGet(platform_id, encoding_id)
  IN  IF got.exc = "KeyError" THEN "utf_16_be" ELSE got.codec

Attempt(exc, encoding, s, rule) ==
  [exc |-> exc, encoding |-> encoding, s |-> s, rule |-> rule]

\* AsciiOutcome without its except clause: the error of the last attempt
\* leaves the function
AsciiOutcome_Uncaught(d) == Attempt(d.exc, "ascii", d.text, "ascii")

\* try: ASCII  except UnicodeError: failed
AsciiOutcome(d) ==
  IF d.exc \in UnicodeErrors THEN Attempt("", "None", <<>>, "failed")
  ELSE Attempt(d.exc, "ascii", d.text, "ascii")

TryAscii(raw) == AsciiOutcome(Decode("ascii", raw))

\* try: UTF-16 BE  except UnicodeError: the ASCII attempt
Utf16beOutcome(d, raw) ==
  IF d.exc \in UnicodeErrors THEN TryAscii(raw)
  ELSE Attempt(d.exc, "utf_16_be", d.text, "utf_16_be")

TryUtf16be(raw) == Utf16beOutcome(Decode("utf_16_be", raw), raw)

\* try: preferred encoding with padding \x00  except UnicodeError: UTF-16 BE
PaddingOutcome(d, raw, encoding) ==
  IF d.exc \in UnicodeErrors THEN TryUtf16be(raw)
  ELSE Attempt(d.exc, encoding, d.text, "padding")

TryPadding(raw, encoding) ==
  PaddingOutcome(IF MatchesPadding(raw) THEN Decode(encoding, RemoveNul(raw))
                 ELSE [exc |-> "UnicodeError", text |-> <<>>],
                 raw, encoding)

\* CheckedDecode with its test for an inner NUL inverted
CheckedDecode_Inverted(d) ==
  IF d.exc = "" /\ ~HasNul(Strip(d.text))
  THEN [exc |-> "UnicodeError", text |-> <<>>] ELSE d

\* s = raw.decode(encoding); if "\x00" in s.strip("\x00"): raise UnicodeError()
CheckedDecode(d) ==
  IF d.exc = "" /\ HasNul(Strip(d.text))
  THEN [exc |-> "UnicodeError", text |-> <<>>] ELSE d

\* try: SFNT info preferred encoding  except UnicodeError: the padding attempt
PreferredOutcome(d, raw, encoding) ==
  IF d.exc \in UnicodeErrors THEN TryPadding(raw, encoding)
  ELSE Attempt(d.exc, encoding, d.text, "preferred")

TryEncoding(raw, encoding) ==
  PreferredOutcome(CheckedDecode(Decode(encoding, raw)), raw, encoding)

TryPreferred(raw, platform_id, encoding_id) ==
  TryEncoding(raw, PreferredEncoding(platform_id, encoding_id))

\* name.encoding = encoding; name.unicode = s.strip("\x00")
SetName(n, a) ==
  [exc |-> a.exc, rule |-> a.rule,
   name |-> [n EXCEPT !.encoding = a.encoding, !.unicode = Strip(a.s)]]

Decoding(n) ==
  SetName(n, TryPreferred(n.string, n.platform_id, n.encoding_id))

\* a name as face.get_sfnt_name returns it
SfntName(language_id, platform_id, encoding_id, name_id, string) ==
  [language_id |-> language_id, platform_id |-> platform_id,
   encoding_id |-> encoding_id, name_id |-> name_id, string |-> string,
   encoding |-> "unset", unicode |-> <<>>]

(***************************************************************************)
(* guess_sfnt_name                                                         *)
(***************************************************************************)
\* Default priority of SFNT names: (language_id, platform_id, encoding_id)
sfnt_name_priority ==
  << <<2052, 3, 3>>, <<2052, 3, 1>>, <<33, 1, 25>>,
     <<1028, 3, 4>>, <<1028, 3, 1>>, <<19, 1, 2>>,
     <<1041, 3, 2>>, <<1041, 3, 1>>, <<11, 1, 1>>,
     <<1042, 3, 5>>, <<1042, 3, 1>>, <<2066, 3, 6>>, <<2066, 3, 1>>,
     <<23, 1, 3>>,
     <<1033, 3, 1>> >>

\* a priority argument: a list of metas, or None/False
PriorityList(metas) == [none |-> FALSE, metas |-> metas]
PriorityNone == [none |-> TRUE, metas |-> <<>>]

Meta(n) == <<n.language_id, n.platform_id, n.encoding_id>>

IsFullName(n) == n.name_id = FULL_NAME

\* the names with name.encoding and name.unicode set by the for loop; an
\* exception of a decoding leaves the loop
Collected(d, rest) ==
  IF d.exc # "" THEN [exc |-> d.exc, names |-> <<>>]
  ELSE IF rest.exc # "" THEN rest
  ELSE [exc |-> "", names |-> <<d.name>> \o rest.names]

RECURSIVE DecodeAll(_)
DecodeAll(names) ==
  IF names = <<>> THEN [exc |-> "", names |-> <<>>]
  ELSE Collected(Decoding(Head(names)), DecodeAll(Tail(names)))

\* {(n.language_id, n.platform_id, n.encoding_id): n.unicode for n in names}:
\* a later name replaces an earlier one of the same key
NameDict(names) ==
  [m \in {Meta(names[i]) : i \in DOMAIN names} |->
     LET last == CHOOSE i \in DOMAIN names :
                   /\ Meta(names[i]) = m
                   /\ \A j \in DOMAIN names : Meta(names[j]) = m => j <= i
     IN  names[last].unicode]

\* ChooseName walking the names in their input order instead of the priority
ChooseName_InputOrder(namedict, metas, names) ==
  LET hits == {i \in DOMAIN names :
                 Meta(names[i]) \in Range(metas) /\ names[i].unicode # <<>>}
  IN  IF hits = {}
      THEN [name |-> names[Len(names)].unicode, preferred |-> FALSE]
      ELSE [name |-> names[CHOOSE i \in hits : \A j \in hits : i <= j].unicode,
            preferred |-> TRUE]

\* ChooseName falling back to the first name instead of the last
RECURSIVE ChooseName_FallbackFirst(_, _, _)
ChooseName_FallbackFirst(namedict, metas, names) ==
  IF metas = <<>>
  THEN [name |-> names[1].unicode, preferred |-> FALSE]
  ELSE IF Head(metas) \in DOMAIN namedict /\ namedict[Head(metas)] # <<>>
  THEN [name |-> namedict[Head(metas)], preferred |-> TRUE]
  ELSE ChooseName_FallbackFirst(namedict, Tail(metas), names)

\* for meta in priority: name = namedict.get(meta); if name: break
\* else: name = names[-1].unicode
RECURSIVE ChooseName(_, _, _)
ChooseName(namedict, metas, names) ==
  IF metas = <<>>
  THEN [name |-> names[Len(names)].unicode, preferred |-> FALSE]
  ELSE IF Head(metas) \in DOMAIN namedict /\ namedict[Head(metas)] # <<>>
  THEN [name |-> namedict[Head(metas)], preferred |-> TRUE]
  ELSE ChooseName(namedict, Tail(metas), names)

Returned(kind, text, names, warnings) ==
  [exc |-> "", kind |-> kind, text |-> text, names |-> names,
   warnings |-> warnings]

\* logger.warning("Failed to decode ...") for a name left without text
FailedToDecode(names) ==
  IF \E i \in DOMAIN names : names[i].unicode = <<>>
  THEN {"Failed to decode"} ELSE {}

\* Choose a prefered name if need
Chosen(c, names) ==
  Returned("text", c.name, <<>>,
           IF c.preferred THEN FailedToDecode(names)
           ELSE FailedToDecode(names) \cup {"Can't find any preferred name"})

Selected(full, dec, prio) ==
  IF full = <<>>
  THEN Returned("text", <<>>, <<>>, {"Can't find a FULL_NAME item"})
  ELSE IF dec.exc # ""
  THEN [exc |-> dec.exc, kind |-> "raised", text |-> <<>>, names |-> <<>>,
        warnings |-> {}]
  ELSE IF prio.none
  THEN Returned("names", <<>>, dec.names, FailedToDecode(dec.names))
  ELSE Chosen(ChooseName(NameDict(dec.names), prio.metas, dec.names),
              dec.names)

FullNames(sfnt_names) == SelectSeq(sfnt_names, IsFullName)

GuessSfntName(sfnt_names, prio) ==
  Selected(FullNames(sfnt_names), DecodeAll(FullNames(sfnt_names)), prio)

(***************************************************************************)
(* guess_font_name                                                         *)
(***************************************************************************)
\* None, where a byte string or a text is expected
None == <<-1>>

\* a face of the font file, as freetype shows it
Face(sfnt, family_name, postscript_name) ==
  [sfnt |-> sfnt, family_name |-> family_name,
   postscript_name |-> postscript_name]

\* bytes.decode('ascii') of an attribute that may be None
AttrDecodeAscii(attr) ==
  IF attr = None THEN [exc |-> "AttributeError", text |-> <<>>]
  ELSE Decode("ascii", attr)

\* logger.debug("Try use PostScript name")
PostScriptName(ps) ==
  IF ps.exc = "" THEN [exc |-> "", name |-> ps.text]
  ELSE IF ps.exc # "UnicodeDecodeError" THEN [exc |-> ps.exc, name |-> <<>>]
  ELSE [exc |-> "", name |-> <<>>]

\* logger.debug("Try use family name")
FamilyName(fam, face) ==
  IF fam.exc = "" THEN [exc |-> "", name |-> fam.text]
  ELSE IF fam.exc # "UnicodeDecodeError" THEN [exc |-> fam.exc, name |-> <<>>]
  ELSE PostScriptName(AttrDecodeAscii(face.postscript_name))

\* if not name: the family name, then the PostScript name
NameOrFallback(g, face) ==
  IF g.exc # "" THEN [exc |-> g.exc, name |-> <<>>]
  ELSE IF g.text # <<>> THEN [exc |-> "", name |-> g.text]
  ELSE FamilyName(AttrDecodeAscii(face.family_name), face)

\* the name of one face: the body of the for loop up to "if name:"
FaceName(face) ==
  NameOrFallback(IF Len(face.sfnt) > 0
                 THEN GuessSfntName(face.sfnt, PriorityList(sfnt_name_priority))
                 ELSE Returned("text", <<>>, <<>>, {}),
                 face)

\* AppendName without the test "name not in names"
AppendName_NoDedup(fnames, name) ==
  IF name # <<>> THEN Append(fnames, name) ELSE fnames

\* if name: if name not in names: names.append(name)
AppendName(fnames, name) ==
  IF name # <<>> /\ name \notin Range(fnames) THEN Append(fnames, name)
  ELSE fnames

\* join.join(names)
RECURSIVE JoinNames(_, _)
JoinNames(sep, fnames) ==
  IF fnames = <<>> THEN <<>>
  ELSE IF Len(fnames) = 1 THEN fnames[1]
  ELSE fnames[1] \o sep \o JoinNames(sep, Tail(fnames))

\* if join not in (None, False): names = join.join(names)
FontResult(sep, fnames) ==
  IF sep = None THEN [joined |-> FALSE, text |-> <<>>, list |-> fnames]
  ELSE [joined |-> TRUE, text |-> JoinNames(sep, fnames), list |-> <<>>]

(***************************************************************************)
(* State.                                                                  *)
(*   pc          where the modelled call stands                            *)
(*   exc         the exception the call left with ("" when none)           *)
(* decoding of one name:                                                   *)
(*   name        the SFNT name; name.encoding and name.unicode once set    *)
(*   declared    the encoding the table gave for it                        *)
(*   rule        the attempt of the cascade that produced name.unicode     *)
(*   src         the text name.string was encoded from, None for raw bytes *)
(* guess_sfnt_name:                                                        *)
(*   names       the SFNT names of the face                                *)
(*   priority    the priority argument                                     *)
(*   ret         what the call returned                                    *)
(* guess_font_name:                                                        *)
(*   file        the faces of the font file                                *)
(*   join        the join argument                                         *)
(*   faces       the opened faces (indices into file), in order            *)
(*   index       the face the for loop is at                               *)
(*   font_names  the names collected so far                                *)
(*   result      what the call returned                                    *)
(*   released    the faces whose FreeType handle has been released         *)
(***************************************************************************)
VARIABLES pc, exc, name, declared, rule, src, names, priority, ret,
          file, join, faces, index, font_names, result, released

vars == <<pc, exc, name, declared, rule, src, names, priority, ret,
          file, join, faces, index, font_names, result, released>>

decodeVars == <<name, declared, rule, src>>
selectVars == <<names, priority, ret>>
fontVars == <<file, join, faces, index, font_names, result, released>>

NoName == SfntName(0, 0, 0, 0, <<>>)
NoReturn == [exc |-> "", kind |-> "none", text |-> <<>>, names |-> <<>>,
             warnings |-> {}]
NoResult == [joined |-> FALSE, text |-> <<>>, list |-> <<>>]

DecodeIdle ==
  name = NoName /\ declared = "unset" /\ rule = "unset" /\ src = None
SelectIdle == names = <<>> /\ priority = PriorityNone /\ ret = NoReturn
FontIdle ==
  /\ file = <<>> /\ join = None /\ faces = <<>> /\ index = 0
  /\ font_names = <<>> /\ result = NoResult /\ released = {}

(***************************************************************************)
(* Spec: the decoding of one SFNT name.                                    *)
(***************************************************************************)
\* (platform_id, encoding_id) of the names that carry arbitrary bytes: one
\* pair for each way a codec treats ByteAlphabet, and two pairs the table
\* does not hold
NamePairs ==
  {<<3, 1>>, <<2, 0>>, <<2, 2>>, <<1, 0>>, <<1, 1>>, <<1, 21>>, <<3, 10>>,
   <<3, 7>>, <<9, 9>>}

RawNames ==
  {SfntName(0, pe[1], pe[2], FULL_NAME, raw) :
     pe \in NamePairs, raw \in SeqsUpTo(ByteAlphabet, MaxLen)}

TableNames ==
  {SfntName(0, p, e, FULL_NAME, <<>>) :
     p \in 0..MaxPlatformID, e \in 0..MaxEncodingID}

InitDecode ==
  /\ pc = "fetched" /\ exc = ""
  /\ declared = "unset" /\ rule = "unset"
  /\ \/ src = None /\ name \in RawNames \cup TableNames
     \/ /\ src \in SeqsUpTo(CharAlphabet, MaxChars)
        /\ \E pe \in NamePairs :
             LET codec == PreferredEncoding(pe[1], pe[2])
                 raw == Encode(codec, src)
             IN  /\ codec \in EncodableCodecs
                 /\ raw.exc = ""
                 /\ name = SfntName(0, pe[1], pe[2], FULL_NAME, raw.text)
  /\ SelectIdle /\ FontIdle

\* one pass of the for loop of guess_sfnt_name
NameDecoded(d) ==
  /\ exc' = d.exc
  /\ rule' = d.rule
  /\ name' = d.name
  /\ pc' = IF d.exc = "" THEN "decoded" ELSE "raised"

DecodeName ==
  /\ pc = "fetched"
  /\ declared' = PreferredEncoding(name.platform_id, name.encoding_id)
  /\ NameDecoded(Decoding(name))
  /\ UNCHANGED <<src, selectVars, fontVars>>

Next == DecodeName

Spec == InitDecode /\ [][Next]_vars

(***************************************************************************)
(* SpecSelect: guess_sfnt_name on the names of one face.                   *)
(***************************************************************************)
SampleMetas == {<<2052, 3, 1>>, <<1033, 3, 1>>, <<0, 1, 0>>}
SampleStrings == {<<0, 65>>, <<0, 92>>, <<65, 0, 65>>, <<128>>}

SampleNames ==
  {SfntName(m[1], m[2], m[3], FULL_NAME, raw) :
     m \in SampleMetas, raw \in SampleStrings}
  \cup {SfntName(1033, 3, 1, 1, <<0, 65>>)}

Priorities ==
  {PriorityList(sfnt_name_priority),
   PriorityList(<< <<0, 1, 0>>, <<2052, 3, 1>> >>),
   PriorityNone}

InitSelect ==
  /\ pc = "called" /\ exc = ""
  /\ names \in SeqsUpTo(SampleNames, MaxNames)
  /\ priority \in Priorities
  /\ ret = NoReturn
  /\ DecodeIdle /\ FontIdle

GuessSfntNameReturns(g) ==
  /\ ret' = g
  /\ exc' = g.exc
  /\ pc' = IF g.exc = "" THEN "returned" ELSE "raised"

CallGuessSfntName ==
  /\ pc = "called"
  /\ GuessSfntNameReturns(GuessSfntName(names, priority))
  /\ UNCHANGED <<names, priority, decodeVars, fontVars>>

NextSelect == CallGuessSfntName

SpecSelect == InitSelect /\ [][NextSelect]_vars

(***************************************************************************)
(* SpecFont: guess_font_name on a font file.                               *)
(***************************************************************************)
Foo == <<70, 111, 111>>
Bar == <<66, 97, 114>>
Separator == <<32, 38, 32>>

SampleFaces ==
  {Face(<<SfntName(1033, 3, 1, FULL_NAME, <<0, 65>>)>>, Foo, Foo),
   Face(<<SfntName(1033, 3, 1, FULL_NAME, <<128>>)>>, Foo, Bar),
   Face(<<>>, Foo, Bar),
   Face(<<>>, Bar, Bar),
   Face(<<>>, <<128>>, Bar),
   Face(<<>>, <<128>>, <<128>>),
   Face(<<>>, <<>>, Foo),
   Face(<<>>, None, Bar)}

InitFont ==
  /\ pc = "called" /\ exc = ""
  /\ file \in SeqsUpTo(SampleFaces, MaxFaces) \ {<<>>}
  /\ join \in {Separator, None}
  /\ faces = <<>> /\ index = 0 /\ font_names = <<>>
  /\ result = NoResult /\ released = {}
  /\ DecodeIdle /\ SelectIdle

\* freetype.Face(filename), freetype.Face(filename, i): the next face opens
OpenFace ==
  /\ pc = "called"
  /\ Len(faces) < Len(file)
  /\ faces' = Append(faces, Len(faces) + 1)
  /\ UNCHANGED <<pc, exc, file, join, index, font_names, result, released,
                 decodeVars, selectVars>>

\* freetype.Face raises: the file, or one face of it, cannot be opened
OpenFaceRaises ==
  /\ pc = "called"
  /\ Len(faces) < Len(file)
  /\ exc' = "FT_Exception"
  /\ pc' = "raised"
  /\ UNCHANGED <<file, join, faces, index, font_names, result, released,
                 decodeVars, selectVars>>

\* for index, face in enumerate(faces): one pass
FaceProcessed(o) ==
  /\ exc' = o.exc
  /\ pc' = IF o.exc = "" THEN "called" ELSE "raised"
  /\ font_names' = IF o.exc = "" THEN AppendName(font_names, o.name)
                   ELSE font_names
  /\ index' = IF o.exc = "" THEN index + 1 ELSE index

ProcessFace ==
  /\ pc = "called"
  /\ Len(faces) = Len(file)
  /\ index < Len(faces)
  /\ FaceProcessed(FaceName(file[faces[index + 1]]))
  /\ UNCHANGED <<file, join, faces, result, released, decodeVars, selectVars>>

\* the handles the runtime releases as the call returns: with reference
\* counting the list of faces dies with the frame, and Face.__del__ runs
FreedOnReturn(refcounting) == IF refcounting THEN Range(faces) ELSE {}

\* return names: the function itself closes nothing
Return ==
  /\ pc = "called"
  /\ Len(faces) = Len(file)
  /\ index = Len(faces)
  /\ result' = FontResult(join, font_names)
  /\ pc' = "returned"
  /\ \E refcounting \in BOOLEAN :
       released' = released \cup FreedOnReturn(refcounting)
  /\ UNCHANGED <<exc, file, join, faces, index, font_names,
                 decodeVars, selectVars>>

\* a tracing collector finalizes an unreachable face some time after return
Collect ==
  /\ pc = "returned"
  /\ \E h \in Range(faces) \ released : released' = released \cup {h}
  /\ UNCHANGED <<pc, exc, file, join, faces, index, font_names, result,
                 decodeVars, selectVars>>

NextFont == OpenFace \/ OpenFaceRaises \/ ProcessFace \/ Return \/ Collect

SpecFont == InitFont /\ [][NextFont]_vars

(***************************************************************************)
(* Properties of the decoding of one name (Spec).                          *)
(***************************************************************************)
InTable(platform_id, encoding_id) ==
  /\ platform_id \in DOMAIN sfnt_name_encoding
  /\ encoding_id \in DOMAIN sfnt_name_encoding[platform_id]

\* the bytes at the even indices 0, 2, 4, ... of raw are all zero
EvenIndexedZero(raw) == \A i \in DOMAIN raw : i % 2 = 1 => raw[i] = 0

\* the bytes at the odd indices 1, 3, 5, ... of raw
OddIndexedBytes(raw) == [i \in 1..(Len(raw) \div 2) |-> raw[2 * i]]

\* C1: decoding one name never raises and leaves exactly one result: a text
\* and an encoding, the encoding None exactly when every attempt failed, and
\* then the text is empty.
DecodeTotal ==
  /\ pc # "raised"
  /\ pc = "decoded" =>
       /\ exc = ""
       /\ rule \in {"preferred", "padding", "utf_16_be", "ascii", "failed"}
       /\ name.encoding \in TableCodecs \cup {"None"}
       /\ name.unicode \in Seq(Nat)
       /\ (name.encoding = "None") <=> (rule = "failed")
       /\ rule = "failed" => name.unicode = <<>>

\* a name whose platform/encoding pair the table does not hold and whose
\* bytes no attempt decodes
DecodeTotalWitness ==
  /\ pc = "decoded"
  /\ ~InTable(name.platform_id, name.encoding_id)
  /\ name.string # <<>>
  /\ rule = "failed"

\* C7: the lookup of the encoding is total: a pair the table holds gives the
\* table's value, every other pair gives utf_16_be.
TableLookupTotal ==
  pc = "decoded" =>
    /\ declared \in TableCodecs
    /\ InTable(name.platform_id, name.encoding_id) =>
         declared = sfnt_name_encoding[name.platform_id][name.encoding_id]
    /\ ~InTable(name.platform_id, name.encoding_id) => declared = "utf_16_be"

\* an encoding id unknown under a platform the table knows
TableLookupWitness ==
  /\ pc = "decoded"
  /\ name.platform_id \in DOMAIN sfnt_name_encoding
  /\ name.encoding_id \notin DOMAIN sfnt_name_encoding[name.platform_id]
  /\ declared = "utf_16_be"

\* C4, as claimed: a raw string encoded from a text S under its declared
\* encoding decodes to S, and the declared encoding is reported.
FidelityOriginal ==
  (pc = "decoded" /\ src # None) =>
    (name.unicode = src /\ name.encoding = declared)

\* C4, amended: the same for a text S without NUL that the declared codec
\* decodes back from its own encoding; no repair attempt is made.
Fidelity ==
  (/\ pc = "decoded" /\ src # None
   /\ ~HasNul(src)
   /\ Decode(declared, name.string) = Decoded(src)) =>
    (name.unicode = src /\ name.encoding = declared /\ rule = "preferred")

FidelityWitness ==
  /\ pc = "decoded" /\ src # None
  /\ Len(src) >= 2 /\ ~HasNul(src)
  /\ declared # "utf_16_be"
  /\ Decode(declared, name.string) = Decoded(src)
  /\ name.unicode = src

\* C9: the padding attempt gives the result only for a raw string whose
\* even-indexed bytes are all zero, and the text is then the odd-indexed
\* bytes decoded with the declared codec.
PaddingOnlyInterleaved ==
  (pc = "decoded" /\ rule = "padding") =>
    /\ EvenIndexedZero(name.string)
    /\ name.unicode =
         Strip(Decode(declared, OddIndexedBytes(name.string)).text)

\* C10: the padding attempt and the retry as UTF-16 BE give the result only
\* when the declared encoding is not utf_16_be and the raw string holds a
\* NUL before its trailing zero bytes.
NulHeuristicsGated ==
  (pc = "decoded" /\ rule \in {"padding", "utf_16_be"}) =>
    (declared # "utf_16_be" /\ HasNul(StripRight(name.string)))

(***************************************************************************)
(* Properties of guess_sfnt_name (SpecSelect).                             *)
(***************************************************************************)
Full == FullNames(names)

UnicodeOf(n) == Decoding(n).name.unicode

Present(m) == \E i \in DOMAIN Full : Meta(Full[i]) = m

\* the last of the full names of meta m
LastOf(m) ==
  CHOOSE i \in DOMAIN Full :
    Meta(Full[i]) = m /\ \A j \in DOMAIN Full : Meta(Full[j]) = m => j <= i

\* meta m has a full name and the last one of them has a text
Usable(m) == Present(m) /\ UnicodeOf(Full[LastOf(m)]) # <<>>

NonePresent == \A k \in DOMAIN priority.metas : ~Present(priority.metas[k])

\* C2, as claimed: the name returned is that of a record of the earliest
\* priority entry that has a record.
PriorityPrecedenceOriginal ==
  (pc = "returned" /\ ~priority.none) =>
    \A k \in DOMAIN priority.metas :
      (/\ Present(priority.metas[k])
       /\ \A j \in 1..(k - 1) : ~Present(priority.metas[j])) =>
        \E i \in DOMAIN Full :
          Meta(Full[i]) = priority.metas[k] /\ ret.text = UnicodeOf(Full[i])

\* C2, amended: the name returned is that of the earliest priority entry
\* whose record (the last one, when several share the entry) has a non-empty
\* text, wherever the records stand in the input.
PriorityPrecedence ==
  (pc = "returned" /\ ~priority.none) =>
    \A k \in DOMAIN priority.metas :
      (/\ Usable(priority.metas[k])
       /\ \A j \in 1..(k - 1) : ~Usable(priority.metas[j])) =>
        ret.text = UnicodeOf(Full[LastOf(priority.metas[k])])

\* two records of different priority entries, and the later one of the
\* input is the one returned
PriorityPrecedenceWitness ==
  /\ pc = "returned" /\ ~priority.none
  /\ \E i, j \in DOMAIN Full :
       /\ i < j
       /\ Meta(Full[i]) # Meta(Full[j])
       /\ Meta(Full[i]) \in Range(priority.metas)
       /\ Meta(Full[j]) \in Range(priority.metas)
       /\ UnicodeOf(Full[i]) # <<>>
       /\ ret.text = UnicodeOf(Full[j])
       /\ ret.text # UnicodeOf(Full[i])

\* C3: the text returned holds no NUL.
SelectorOutputHasNoNul ==
  (pc = "returned" /\ ret.kind = "text") => ~HasNul(ret.text)

\* C8, as claimed: with no priority entry among the full names, the text of
\* a record outside the priority is not returned.
MissingPreferredNotGuessed ==
  (pc = "returned" /\ ~priority.none /\ NonePresent) =>
    ~\E i \in DOMAIN Full :
        UnicodeOf(Full[i]) # <<>> /\ ret.text = UnicodeOf(Full[i])

\* C8, amended: with no priority entry among the full names, a warning is
\* logged and the text of the last full name is returned (the empty text
\* when there is no full name at all).
MissingPreferredFallsBack ==
  (pc = "returned" /\ ~priority.none /\ NonePresent) =>
    IF Full = <<>>
    THEN ret.text = <<>> /\ "Can't find a FULL_NAME item" \in ret.warnings
    ELSE /\ ret.text = UnicodeOf(Full[Len(Full)])
         /\ "Can't find any preferred name" \in ret.warnings

MissingPreferredWitness ==
  /\ pc = "returned" /\ ~priority.none /\ NonePresent
  /\ Len(Full) >= 2
  /\ ret.text # <<>>
  /\ UnicodeOf(Full[1]) # <<>>
  /\ UnicodeOf(Full[1]) # ret.text

(***************************************************************************)
(* Properties of guess_font_name (SpecFont).                               *)
(***************************************************************************)
PerFace == [i \in DOMAIN file |-> FaceName(file[i]).name]

\* the first face that has the name
FirstFace(n) ==
  CHOOSE i \in DOMAIN file :
    PerFace[i] = n /\ \A j \in DOMAIN file : PerFace[j] = n => i <= j

\* C5, as claimed: exactly one name per face, in face order, joined by the
\* separator or returned as a sequence.
OneNamePerFace ==
  pc = "returned" =>
    IF join = None THEN result.list = PerFace
    ELSE result.text = JoinNames(join, PerFace)

\* C5, amended: the distinct non-empty names of the faces, each at the place
\* of the first face that has it, joined by the separator or returned as a
\* sequence; faces named Foo and Bar joined by " & " give "Foo & Bar".
AggregatesDistinctNames ==
  pc = "returned" =>
    /\ \A a, b \in DOMAIN font_names : a # b => font_names[a] # font_names[b]
    /\ Range(font_names) = Range(PerFace) \ {<<>>}
    /\ \A a, b \in DOMAIN font_names :
         a < b => FirstFace(font_names[a]) < FirstFace(font_names[b])
    /\ IF join = None
       THEN ~result.joined /\ result.list = font_names
       ELSE result.joined /\ result.text = JoinNames(join, font_names)
    /\ (file = <<Face(<<>>, Foo, Bar), Face(<<>>, Bar, Bar)>>
        /\ join = Separator) =>
         result.text = <<70, 111, 111, 32, 38, 32, 66, 97, 114>>

\* several faces, of which one adds no name, and the names are joined
AggregatesWitness ==
  /\ pc = "returned"
  /\ Len(font_names) >= 2
  /\ Len(font_names) < Len(file)
  /\ result.joined
  /\ Len(result.text) > Len(font_names[1]) + Len(font_names[2])

\* C6: every face handle opened by the call has been released when the call
\* has left, by return or by an exception.
HandlesReleasedAtExit ==
  pc \in {"returned", "raised"} => Range(faces) \subseteq released

=============================================================================
